---- MODULE Spec2Model ----
(***************************************************************************)
(* chilog: the chi middleware of src/chilog.go (request id, recover and    *)
(* request log).  One invocation of the closure returned by Middleware is  *)
(* a process r; its program counter pc[r] walks the statements of the      *)
(* closure; the wrapped handler (next) is the environment and acts while   *)
(* pc[r] = "handler".                                                      *)
(***************************************************************************)
EXTENDS Integers, Sequences, FiniteSets, TLC

(***************************************************************************)
(* Bounds of the model.                                                    *)
(***************************************************************************)
\* number of clock advances in one behaviour
MaxTicks == 2

\* the invocations of the middleware closure (one per inbound request)
ReqIds == {1, 2}

(***************************************************************************)
(* Values.                                                                 *)
(***************************************************************************)
\* a Go value that can be passed to panic(): kind is its dynamic type class,
\* text its fmt "%v" formatting, origin the place that allocated it
Val(kind, text, origin) == [kind |-> kind, text |-> text, origin |-> origin]

\* the nil interface value (recover() with no panic in flight, error(nil))
NilVal == Val("nil", "<nil>", "")

\* http.ErrAbortHandler, the sentinel compared at chilog.go:104
ErrAbortHandler == Val("error", "net/http: abort Handler", "net/http")

\* what a handler (or a filter) may panic with: the sentinel, another error
\* value, and a value that is not an error.  A panic value is never nil here:
\* what recover() returns for panic(nil) depends on the Go release.
PanicVals ==
    { ErrAbortHandler,
      Val("error", "db down", "handler"),
      Val("int", "42", "handler") }

\* debug.Stack(): a non-empty byte slice; NilStack is the nil []byte
NilStack == "<nil>"
StackTrace == "goroutine 1 [running]: runtime/debug.Stack()"

\* r.Body == nil
NoBody == [present |-> FALSE, data |-> <<>>, err |-> FALSE]

\* an io.ReadCloser that yields data and then io.EOF (err = FALSE) or a
\* read error (err = TRUE)
Stream(data, err) == [present |-> TRUE, data |-> data, err |-> err]

\* the result of the handler's io.ReadAll; NotRead before it
NotRead == [done |-> FALSE, data |-> <<>>, err |-> FALSE]

(***************************************************************************)
(* formatReqBody (chilog.go:149-162).  A byte slice is a sequence of       *)
(* one-character strings.  json.Unmarshal first checks the whole input     *)
(* against the JSON grammar and then decodes into a map[string]interface{},*)
(* which accepts a top-level object or null only.  Every Parse operator    *)
(* returns the index after what it recognised, or 0 when it fails.         *)
(***************************************************************************)
Whitespace == {" ", "\t", "\r", "\n"}
Digits == {"0", "1", "2", "3", "4", "5", "6", "7", "8", "9"}
HexDigits == Digits \cup {"a", "b", "c", "d", "e", "f", "A", "B", "C", "D", "E", "F"}
Escapes == {"\"", "\\", "/", "b", "f", "n", "r", "t"}
\* the bytes below 0x20, which the scanner rejects inside a string literal:
\* the four a string can hold, and the others under the name of their code
ControlChars ==
    {"\t", "\r", "\n", "\f"}
    \cup {"<00>", "<01>", "<02>", "<03>", "<04>", "<05>", "<06>", "<07>", "<08>",
          "<0B>", "<0E>", "<0F>", "<10>", "<11>", "<12>", "<13>", "<14>", "<15>",
          "<16>", "<17>", "<18>", "<19>", "<1A>", "<1B>", "<1C>", "<1D>", "<1E>",
          "<1F>"}

\* the scanner's maxNestingDepth: the objects and arrays that may be open
\* at once
MaxNestingDepth == 10000

At(s, i) == IF i >= 1 /\ i <= Len(s) THEN s[i] ELSE "<eof>"

RECURSIVE SkipWs(_, _)
SkipWs(s, i) == IF At(s, i) \in Whitespace THEN SkipWs(s, i + 1) ELSE i

RECURSIVE ParseDigits(_, _)
ParseDigits(s, i) == IF At(s, i) \in Digits THEN ParseDigits(s, i + 1) ELSE i

\* -? (0 | [1-9][0-9]*) (\. [0-9]+)? ([eE] [+-]? [0-9]+)?
ParseNumber(s, i) ==
    LET a == IF At(s, i) = "-" THEN i + 1 ELSE i
        b == IF At(s, a) = "0" THEN a + 1
             ELSE IF At(s, a) \in Digits THEN ParseDigits(s, a) ELSE 0
        c == IF b = 0 THEN 0
             ELSE IF At(s, b) = "."
                  THEN IF At(s, b + 1) \in Digits THEN ParseDigits(s, b + 1) ELSE 0
                  ELSE b
        d == IF c = 0 THEN 0
             ELSE IF At(s, c) \in {"e", "E"}
                  THEN LET g == IF At(s, c + 1) \in {"+", "-"} THEN c + 2 ELSE c + 1
                       IN IF At(s, g) \in Digits THEN ParseDigits(s, g) ELSE 0
                  ELSE c
    IN d

\* the characters after the opening quote, up to and including the closing one
RECURSIVE ParseStringTail(_, _)
ParseStringTail(s, i) ==
    LET c == At(s, i) IN
    IF c = "<eof>" \/ c \in ControlChars THEN 0
    ELSE IF c = "\"" THEN i + 1
    ELSE IF c = "\\"
         THEN IF At(s, i + 1) \in Escapes THEN ParseStringTail(s, i + 2)
              ELSE IF At(s, i + 1) = "u"
                      /\ \A k \in 2..5 : At(s, i + k) \in HexDigits
                   THEN ParseStringTail(s, i + 6)
                   ELSE 0
    ELSE ParseStringTail(s, i + 1)

ParseLiteral(s, i, word) ==
    IF \A k \in 1..Len(word) : At(s, i + k - 1) = word[k] THEN i + Len(word) ELSE 0

RECURSIVE ParseValue(_, _, _)
RECURSIVE ParseMembers(_, _, _)
RECURSIVE ParseElements(_, _, _)

\* members of an object after "{" or ",": "key" : value, then "," or "}"
ParseMembers(s, i, depth) ==
    LET k == SkipWs(s, i) IN
    IF At(s, k) # "\"" THEN 0
    ELSE LET e == ParseStringTail(s, k + 1) IN
         IF e = 0 THEN 0
         ELSE LET c == SkipWs(s, e) IN
              IF At(s, c) # ":" THEN 0
              ELSE LET v == ParseValue(s, SkipWs(s, c + 1), depth) IN
                   IF v = 0 THEN 0
                   ELSE LET n == SkipWs(s, v) IN
                        IF At(s, n) = "}" THEN n + 1
                        ELSE IF At(s, n) = "," THEN ParseMembers(s, n + 1, depth)
                        ELSE 0

\* elements of an array after "[" or ",": value, then "," or "]"
ParseElements(s, i, depth) ==
    LET v == ParseValue(s, SkipWs(s, i), depth) IN
    IF v = 0 THEN 0
    ELSE LET n == SkipWs(s, v) IN
         IF At(s, n) = "]" THEN n + 1
         ELSE IF At(s, n) = "," THEN ParseElements(s, n + 1, depth)
         ELSE 0

\* a value at i with depth objects and arrays open around it; opening one
\* more than MaxNestingDepth is an error ("exceeded max depth")
ParseValue(s, i, depth) ==
    LET c == At(s, i) IN
    IF c \in {"{", "["} /\ depth + 1 > MaxNestingDepth THEN 0
    ELSE IF c = "{" THEN IF At(s, SkipWs(s, i + 1)) = "}" THEN SkipWs(s, i + 1) + 1
                         ELSE ParseMembers(s, i + 1, depth + 1)
    ELSE IF c = "[" THEN IF At(s, SkipWs(s, i + 1)) = "]" THEN SkipWs(s, i + 1) + 1
                         ELSE ParseElements(s, i + 1, depth + 1)
    ELSE IF c = "\"" THEN ParseStringTail(s, i + 1)
    ELSE IF c = "t" THEN ParseLiteral(s, i, <<"t", "r", "u", "e">>)
    ELSE IF c = "f" THEN ParseLiteral(s, i, <<"f", "a", "l", "s", "e">>)
    ELSE IF c = "n" THEN ParseLiteral(s, i, <<"n", "u", "l", "l">>)
    ELSE IF c = "-" \/ c \in Digits THEN ParseNumber(s, i)
    ELSE 0

\* json's checkValid: one value between optional whitespace, then the end
ValidJSON(data) ==
    LET e == ParseValue(data, SkipWs(data, 1), 0) IN
    e # 0 /\ SkipWs(data, e) = Len(data) + 1

\* the value of a decimal digit
DigitVal(c) == (CHOOSE k \in 1..10 : <<"0", "1", "2", "3", "4", "5", "6", "7", "8", "9">>[k] = c) - 1

\* 2^1024 - 2^970 in decimal: the least magnitude strconv.ParseFloat rounds
\* to infinity for a float64 (half way between the largest float64 and
\* 2^1024, the tie going to the even neighbour)
Float64Limit ==
    << "1", "7", "9", "7", "6", "9", "3", "1", "3", "4", "8", "6", "2", "3", "1",
       "5", "8", "0", "7", "9", "3", "7", "2", "8", "9", "7", "1", "4", "0", "5",
       "3", "0", "3", "4", "1", "5", "0", "7", "9", "9", "3", "4", "1", "3", "2",
       "7", "1", "0", "0", "3", "7", "8", "2", "6", "9", "3", "6", "1", "7", "3",
       "7", "7", "8", "9", "8", "0", "4", "4", "4", "9", "6", "8", "2", "9", "2",
       "7", "6", "4", "7", "5", "0", "9", "4", "6", "6", "4", "9", "0", "1", "7",
       "9", "7", "7", "5", "8", "7", "2", "0", "7", "0", "9", "6", "3", "3", "0",
       "2", "8", "6", "4", "1", "6", "6", "9", "2", "8", "8", "7", "9", "1", "0",
       "9", "4", "6", "5", "5", "5", "5", "4", "7", "8", "5", "1", "9", "4", "0",
       "4", "0", "2", "6", "3", "0", "6", "5", "7", "4", "8", "8", "6", "7", "1",
       "5", "0", "5", "8", "2", "0", "6", "8", "1", "9", "0", "8", "9", "0", "2",
       "0", "0", "0", "7", "0", "8", "3", "8", "3", "6", "7", "6", "2", "7", "3",
       "8", "5", "4", "8", "4", "5", "8", "1", "7", "7", "1", "1", "5", "3", "1",
       "7", "6", "4", "4", "7", "5", "7", "3", "0", "2", "7", "0", "0", "6", "9",
       "8", "5", "5", "5", "7", "1", "3", "6", "6", "9", "5", "9", "6", "2", "2",
       "8", "4", "2", "9", "1", "4", "8", "1", "9", "8", "6", "0", "8", "3", "4",
       "9", "3", "6", "4", "7", "5", "2", "9", "2", "7", "1", "9", "0", "7", "4",
       "1", "6", "8", "4", "4", "4", "3", "6", "5", "5", "1", "0", "7", "0", "4",
       "3", "4", "2", "7", "1", "1", "5", "5", "9", "6", "9", "9", "5", "0", "8",
       "0", "9", "3", "0", "4", "2", "8", "8", "0", "1", "7", "7", "9", "0", "4",
       "1", "7", "4", "4", "9", "7", "7", "9", "2" >>

\* strconv's readFloat on the exponent digits s[i..j-1]: they are added to
\* e while e < 10000
RECURSIVE ExpValue(_, _, _, _)
ExpValue(s, i, j, e) ==
    IF i >= j THEN e
    ELSE ExpValue(s, i + 1, j, IF e < 10000 THEN e * 10 + DigitVal(s[i]) ELSE e)

RECURSIVE StripZeros(_)
StripZeros(d) == IF d # <<>> /\ Head(d) = "0" THEN StripZeros(Tail(d)) ELSE d

\* the integer written with the digits d, times 10^k, is at least
\* Float64Limit: both are padded with zeros to whole numbers and compared
\* by length, then digit by digit
AtLeastLimit(d, k) ==
    LET lenA == Len(d) + (IF k > 0 THEN k ELSE 0)
        lenB == Len(Float64Limit) + (IF k < 0 THEN -k ELSE 0)
        A(j) == IF j <= Len(d) THEN DigitVal(d[j]) ELSE 0
        B(j) == IF j <= Len(Float64Limit) THEN DigitVal(Float64Limit[j]) ELSE 0
    IN IF lenA # lenB THEN lenA > lenB
       ELSE LET diff == { j \in 1..lenA : A(j) # B(j) } IN
            \/ diff = {}
            \/ LET m == CHOOSE j \in diff : \A x \in diff : j <= x IN A(m) > B(m)

\* the digits strconv's decimal holds (len(decimal.d)); digits after them
\* are dropped
MaxDecimalDigits == 800

\* the decoder's convertNumber on the number literal s[i..e-1]:
\* strconv.ParseFloat(s, 64) fails when the magnitude is out of range.  An
\* out-of-range value is refused by the fast paths and decided by
\* decimal.set and floatBits: the decimal is 0.d times 10^dp, d the first
\* MaxDecimalDigits significant digits and dp the count of the integer
\* digits that were stored (minus the zeros leading the fraction when the
\* integer part is 0) plus the exponent
NumberOverflows(s, i, e) ==
    LET a == IF s[i] = "-" THEN i + 1 ELSE i
        b == ParseDigits(s, a)
        c == IF At(s, b) = "." THEN ParseDigits(s, b + 1) ELSE b
        int == SubSeq(s, a, b - 1)
        frac == IF At(s, b) = "." THEN SubSeq(s, b + 1, c - 1) ELSE <<>>
        hasExp == At(s, c) \in {"e", "E"}
        g == IF hasExp /\ At(s, c + 1) \in {"+", "-"} THEN c + 2 ELSE c + 1
        ex == IF hasExp THEN ExpValue(s, g, e, 0) ELSE 0
        all == StripZeros(int \o frac)
        d == IF Len(all) > MaxDecimalDigits THEN SubSeq(all, 1, MaxDecimalDigits)
             ELSE all
        dp0 == IF StripZeros(int) # <<>>
               THEN IF Len(int) > MaxDecimalDigits THEN MaxDecimalDigits ELSE Len(int)
               ELSE Len(all) - Len(frac)
        dp == dp0 + (IF hasExp /\ At(s, c + 1) = "-" THEN -ex ELSE ex)
    IN d # <<>> /\ AtLeastLimit(d, dp - Len(d))

\* some number literal of the valid JSON text s, from position i on, is
\* out of range
RECURSIVE OverflowFrom(_, _, _)
OverflowFrom(s, i, inStr) ==
    IF i > Len(s) THEN FALSE
    ELSE IF inStr
         THEN IF s[i] = "\\" THEN OverflowFrom(s, i + 2, TRUE)
              ELSE OverflowFrom(s, i + 1, s[i] # "\"")
         ELSE IF s[i] = "\"" THEN OverflowFrom(s, i + 1, TRUE)
         ELSE IF s[i] = "-" \/ s[i] \in Digits
              THEN LET e == ParseNumber(s, i) IN
                   IF e = 0 THEN OverflowFrom(s, i + 1, FALSE)
                   ELSE NumberOverflows(s, i, e) \/ OverflowFrom(s, e, FALSE)
         ELSE OverflowFrom(s, i + 1, FALSE)

\* UnmarshalOK for a target of type interface{} instead of
\* map[string]interface{}: every valid JSON value in range decodes
UnmarshalOK_AnyValue(data) == ValidJSON(data) /\ ~OverflowFrom(data, 1, FALSE)

\* json.Unmarshal(data, &js) == nil for js of type map[string]interface{}:
\* valid JSON whose top-level value is an object or null and whose numbers
\* all fit a float64
UnmarshalOK(data) ==
    /\ ValidJSON(data)
    /\ At(data, SkipWs(data, 1)) \in {"{", "n"}
    /\ ~OverflowFrom(data, 1, FALSE)

\* json.Compact on valid input: the bytes without the whitespace that lies
\* outside string literals
RECURSIVE CompactFrom(_, _, _)
CompactFrom(s, i, inStr) ==
    IF i > Len(s) THEN <<>>
    ELSE IF inStr
         THEN IF s[i] = "\\" /\ i < Len(s)
              THEN <<s[i], s[i + 1]>> \o CompactFrom(s, i + 2, TRUE)
              ELSE <<s[i]>> \o CompactFrom(s, i + 1, s[i] # "\"")
         ELSE IF s[i] \in Whitespace THEN CompactFrom(s, i + 1, FALSE)
              ELSE <<s[i]>> \o CompactFrom(s, i + 1, s[i] = "\"")

Compact(data) == CompactFrom(data, 1, FALSE)

formatReqBody(data) ==
    IF ~UnmarshalOK(data) THEN data ELSE Compact(data)

(***************************************************************************)
(* State.                                                                  *)
(***************************************************************************)
VARIABLES
    filterNil,  \* the filter argument of Middleware is nil
    filterOut,  \* [r] what filter(w, r) does: "true", "false", "panic"
    inHdr,      \* [r] the values of the RequestIDHeader header as received
    sent,       \* [r] the body bytes the client sent
    inBody,     \* [r] r.Body as received
    inMeta,     \* [r] RemoteAddr, Method, Host, URL.Path as received
    hdr,        \* [r] r.Header[RequestIDHeader], the current values
    body,       \* [r] r.Body, the current stream
    meta,       \* [r] RemoteAddr, Method, Host, URL.Path, the current values
    pc,         \* [r] the statement the invocation is at
    timerOn,    \* [r] time.Now() was taken at chilog.go:65
    start,      \* [r] the value of start (ns)
    since,      \* [r] the value of time.Since(start) at chilog.go:122, or -1
    ctx,        \* [r] the logger carried by the request context
    w,          \* [r] the server's http.ResponseWriter: headers sent, status
    ww,         \* [r] the chi WrapResponseWriter: created, wroteHeader, code
    buf,        \* [r] the bytes io.ReadAll returned to the middleware
    fields,     \* [r] the logFields struct
    rvr,        \* [r] the value recover() returned
    calls,      \* [r] how often next.ServeHTTP was invoked
    nextW,      \* [r] the response writer next.ServeHTTP was given
    hRead,      \* [r] what the handler's io.ReadAll(r.Body) returned
    hEnd,       \* [r] how the handler ended: Running, Returned or Panicked(v)
    obs,        \* [r] what the handler saw in the header and in log.Ctx
    hdrTouched, \* [r] the handler has set the header itself
    exit,       \* [r] how the invocation ended: return, or a panic value
    forced500,  \* [r] the deferred function called w.WriteHeader(500)
    log,        \* the records written by zerolog, in order
    uuids,      \* the number of uuid.New() calls so far
    now,        \* the wall clock (ns)
    ticks       \* the number of clock advances so far

vars ==
    << filterNil, filterOut, inHdr, sent, inBody, inMeta, hdr, body, meta, pc,
       timerOn, start, since, ctx, w, ww, buf, fields, rvr, calls, nextW, hRead, hEnd,
       obs, hdrTouched, exit, forced500, log, uuids, now, ticks >>

(***************************************************************************)
(* The inputs a request is drawn from.                                     *)
(***************************************************************************)
\* the header as received: absent, one value, two values
InboundHeaders == { <<>>, <<"abc">>, <<"abc", "xyz">> }

\* the bodies a client sends
SentBodies ==
    { <<>>,
      <<"1", " ">>,
      <<"{", " ", "}">> }

IsPrefix(p, s) == Len(p) <= Len(s) /\ SubSeq(s, 1, Len(p)) = p

Prefixes(s) == { SubSeq(s, 1, k) : k \in 0..Len(s) }

\* r.Body for a client that sent s: nil for a request built without a body,
\* a stream that delivers all of s, or one that fails after a prefix of s
BodiesFor(s) ==
    (IF s = <<>> THEN {NoBody} ELSE {})
    \cup {Stream(s, FALSE)}
    \cup {Stream(p, TRUE) : p \in Prefixes(s)}

Meta(ip, method, host, path) ==
    [RemoteAddr |-> ip, Method |-> method, Host |-> host, Path |-> path]

InboundMetas ==
    { Meta("10.0.0.1:5000", "GET", "localhost:8080", "/healthcheck"),
      Meta("10.0.0.2:5001", "POST", "api.example.com", "/orders") }

\* what the handler may overwrite the request's fields with
HandlerMeta == Meta("10.0.0.9:1", "PUT", "changed.example.com", "/changed")

\* the status codes a handler passes to WriteHeader, one of each class
HandlerCodes == {101, 201, 301, 404, 503}

\* the tokens uuid.New().String() returns, in the order of the calls
UuidOf(n) == <<"uuid-0001", "uuid-0002", "uuid-0003">>[n]

\* the clock advances by one of these (ns)
TickSteps == {15000, 10000000}

(***************************************************************************)
(* Helpers translated from the libraries the closure calls.                *)
(***************************************************************************)
\* http.Header.Get: the first value of the key, "" when there is none
HeaderGet(h) == IF Len(h) = 0 THEN "" ELSE h[1]

\* http.Header.Set: the key's values are replaced by the one value
HeaderSet(h, v) == <<v>>

\* a response writer that has sent nothing yet
FreshWriter == [wroteHeader |-> FALSE, code |-> 0]

\* the server's ResponseWriter.WriteHeader: the first call sends the status,
\* a later one is superfluous and ignored
WriteHeader(x, code) ==
    IF x.wroteHeader THEN x ELSE [wroteHeader |-> TRUE, code |-> code]

\* the server's ResponseWriter.Write: sends 200 first when no status was sent
Write(x) == WriteHeader(x, 200)

\* the chi wrapper before NewWrapResponseWriter
NoWrapper == [made |-> FALSE, wroteHeader |-> FALSE, code |-> 0]

\* middleware.NewWrapResponseWriter(w, r.ProtoMajor)
NewWrapResponseWriter == [made |-> TRUE, wroteHeader |-> FALSE, code |-> 0]

\* basicWriter.WriteHeader: records the first code and forwards it
WrapWriteHeader(x, code) ==
    IF x.wroteHeader THEN x ELSE [x EXCEPT !.wroteHeader = TRUE, !.code = code]

\* basicWriter.Status: the recorded code, 0 when none has been sent through
\* the wrapper
Status(x) == x.code

\* io.ReadAll: the bytes the stream delivers; the stream is left drained
ReadAll(s) == s.data
Drained(s) == [s EXCEPT !.data = <<>>]

\* the zero logFields
ZeroFields ==
    [ RemoteIP |-> "", Host |-> "", Method |-> "", Path |-> "", Body |-> <<>>,
      StatusCode |-> 0, Latency |-> 0, Error |-> NilVal, Stack |-> NilStack ]

NoCtx == [has |-> FALSE, request_id |-> ""]

Running == [kind |-> "running", val |-> NilVal]
Returned == [kind |-> "return", val |-> NilVal]
Panicked(v) == [kind |-> "panic", val |-> v]

\* what filter(w, r) does with a request
FilterOutcomes == {"true", "false", "panic"}

\* the inputs of one request: what the filter does with it, its header,
\* its body (what was sent, and the stream r.Body delivers it through) and
\* its other fields
RequestInputs ==
    UNION { { [filterOut |-> f, inHdr |-> h, sent |-> s, body |-> b, meta |-> m] :
                f \in FilterOutcomes, h \in InboundHeaders,
                b \in BodiesFor(s), m \in InboundMetas } : s \in SentBodies }

\* the state after Middleware(filter)(next) was built and the requests of
\* the set active have reached the closure, each with the inputs inp[r]
InitWith(active, inp) ==
    /\ filterNil \in BOOLEAN
    /\ filterOut = [r \in ReqIds |-> IF filterNil THEN "uncalled" ELSE inp[r].filterOut]
    /\ inHdr = [r \in ReqIds |-> inp[r].inHdr]
    /\ sent = [r \in ReqIds |-> inp[r].sent]
    /\ inBody = [r \in ReqIds |-> inp[r].body]
    /\ inMeta = [r \in ReqIds |-> inp[r].meta]
    /\ hdr = [r \in ReqIds |-> inp[r].inHdr]
    /\ body = [r \in ReqIds |-> inp[r].body]
    /\ meta = [r \in ReqIds |-> inp[r].meta]
    /\ pc = [r \in ReqIds |-> IF r \in active THEN "filter" ELSE "absent"]
    /\ timerOn = [r \in ReqIds |-> FALSE]
    /\ start = [r \in ReqIds |-> 0]
    /\ since = [r \in ReqIds |-> -1]
    /\ ctx = [r \in ReqIds |-> NoCtx]
    /\ w = [r \in ReqIds |-> FreshWriter]
    /\ ww = [r \in ReqIds |-> NoWrapper]
    /\ buf = [r \in ReqIds |-> <<>>]
    /\ fields = [r \in ReqIds |-> ZeroFields]
    /\ rvr = [r \in ReqIds |-> NilVal]
    /\ calls = [r \in ReqIds |-> 0]
    /\ nextW = [r \in ReqIds |-> "none"]
    /\ hRead = [r \in ReqIds |-> NotRead]
    /\ hEnd = [r \in ReqIds |-> Running]
    /\ obs = [r \in ReqIds |-> {}]
    /\ hdrTouched = [r \in ReqIds |-> FALSE]
    /\ exit = [r \in ReqIds |-> Running]
    /\ forced500 = [r \in ReqIds |-> FALSE]
    /\ log = <<>>
    /\ uuids = 0
    /\ now = 0
    /\ ticks = 0

\* a request that never arrives
AbsentInput ==
    [ filterOut |-> "false", inHdr |-> <<>>, sent |-> <<>>, body |-> NoBody,
      meta |-> Meta("", "", "", "") ]

\* one request handled on its own
Init ==
    \E i \in RequestInputs :
        InitWith({1}, [r \in ReqIds |-> IF r = 1 THEN i ELSE AbsentInput])

\* the longest body enumerated character by character
MaxBodyLen == 4

\* the characters the enumerated bodies are made of
BodyAlphabet == {"{", "}", "[", "]", "\"", "1", " "}

\* every sequence over BodyAlphabet of at most n characters
RECURSIVE BodiesUpTo(_)
BodiesUpTo(n) ==
    IF n = 0 THEN {<<>>}
    ELSE LET S == BodiesUpTo(n - 1) IN
         S \cup { Append(s, c) : s \in { x \in S : Len(x) = n - 1 }, c \in BodyAlphabet }

\* an object with a number beyond the float64 range, one with a number in
\* range, and one with a form feed inside a string literal
OverflowBody == <<"{", "\"", "a", "\"", ":", " ", "1", "e", "9", "9", "9", "}">>
InRangeBody == <<"{", "\"", "a", "\"", ":", " ", "1", "e", "3", "0", "8", "}">>
FormFeedBody == <<"{", "\"", "\f", "\"", ":", " ", "1", "}">>

\* longer bodies: objects with members, whitespace inside and outside string
\* literals, the literals, a number with a fraction, text that is not JSON,
\* and the three above
LongBodies ==
    { OverflowBody, InRangeBody, FormFeedBody,
      <<"{", "\"", " ", "\"", ":", " ", "1", "}">>,
      <<" ", "{", "\"", "a", "\"", " ", ":", "[", "1", ",", " ", "1", "]", "}", "\n">>,
      <<"{", "\"", "\\", "\"", " ", "\"", ":", "\t", "\"", " ", "\"", "}">>,
      <<"{", "\"", "a", "\"", ":", "1", ",", "}">>,
      <<"n", "u", "l", "l">>,
      <<" ", "n", "u", "l", "l", " ">>,
      <<"t", "r", "u", "e", " ">>,
      <<" ", "1", ".", "5">>,
      <<"[", "1", ",", " ", "1", "]">>,
      <<"a", "=", "1", " ", "b">> }

\* one request on the full path for every body, delivered whole, and one
\* without a body
InitFormat ==
    /\ \E s \in BodiesUpTo(MaxBodyLen) \cup LongBodies :
       \E b \in (IF s = <<>> THEN {NoBody} ELSE {}) \cup {Stream(s, FALSE)} :
       \E m \in InboundMetas :
          InitWith({1}, [r \in ReqIds |->
                            IF r = 1
                            THEN [ filterOut |-> "false", inHdr |-> <<>>, sent |-> s,
                                   body |-> b, meta |-> m ]
                            ELSE AbsentInput])
    /\ filterNil

\* the status codes the handlers of concurrent requests answer with
ConcCodes == {201, 503}

\* what the two concurrent requests arrive with: each has its own fields and
\* body, with or without an inbound request id, and its own filter outcome
ConcInputs(r) ==
    { [ filterOut |-> f, inHdr |-> h,
        sent |-> IF r = 1 THEN <<"{", " ", "}">> ELSE <<>>,
        body |-> IF r = 1 THEN Stream(<<"{", " ", "}">>, FALSE) ELSE NoBody,
        meta |-> IF r = 1
                 THEN Meta("10.0.0.1:5000", "GET", "localhost:8080", "/healthcheck")
                 ELSE Meta("10.0.0.2:5001", "POST", "api.example.com", "/orders") ] :
      f \in FilterOutcomes, h \in { <<>>, <<"abc">> } }

\* every request of ReqIds is in the closure at once, each on its goroutine
InitConc ==
    /\ \E i1 \in ConcInputs(1) : \E i2 \in ConcInputs(2) :
          InitWith(ReqIds, [r \in ReqIds |-> IF r = 1 THEN i1 ELSE i2])
    /\ ~filterNil

(***************************************************************************)
(* The closure, statement by statement (chilog.go:57-145).                 *)
(***************************************************************************)
\* FilterCheck with the filter's result negated ("!filter(w, r)" left out
\* or added by mistake)
FilterCheck_Negated(r) ==
    /\ pc[r] = "filter"
    /\ IF filterNil \/ filterOut[r] = "true"
       THEN /\ pc' = [pc EXCEPT ![r] = "timer"]
            /\ UNCHANGED << calls, nextW, exit >>
       ELSE IF filterOut[r] = "false"
       THEN /\ pc' = [pc EXCEPT ![r] = "direct"]
            /\ calls' = [calls EXCEPT ![r] = @ + 1]
            /\ nextW' = [nextW EXCEPT ![r] = "w"]
            /\ UNCHANGED exit
       ELSE /\ pc' = [pc EXCEPT ![r] = "done"]
            /\ \E v \in PanicVals : exit' = [exit EXCEPT ![r] = Panicked(v)]
            /\ UNCHANGED << calls, nextW >>
    /\ UNCHANGED << filterNil, hEnd, filterOut, inHdr, sent, inBody, inMeta, hdr, body, meta,
                    timerOn, start, since, ctx, w, ww, buf, fields, rvr, hRead, obs,
                    hdrTouched, forced500, log, uuids, now, ticks >>

\* FilterCheck without the return of chilog.go:61: after next has served a
\* filtered request the closure falls through to the full path
FilterCheck_FallThrough(r) ==
    /\ pc[r] = "filter"
    /\ IF filterNil \/ filterOut[r] = "false"
       THEN /\ pc' = [pc EXCEPT ![r] = "timer"]
            /\ UNCHANGED << calls, nextW, exit >>
       ELSE IF filterOut[r] = "true"
       THEN /\ pc' = [pc EXCEPT ![r] = "timer"]
            /\ calls' = [calls EXCEPT ![r] = @ + 1]
            /\ nextW' = [nextW EXCEPT ![r] = "w"]
            /\ UNCHANGED exit
       ELSE /\ pc' = [pc EXCEPT ![r] = "done"]
            /\ \E v \in PanicVals : exit' = [exit EXCEPT ![r] = Panicked(v)]
            /\ UNCHANGED << calls, nextW >>
    /\ UNCHANGED << filterNil, hEnd, filterOut, inHdr, sent, inBody, inMeta, hdr, body, meta,
                    timerOn, start, since, ctx, w, ww, buf, fields, rvr, hRead, obs,
                    hdrTouched, forced500, log, uuids, now, ticks >>

\* chilog.go:59-62: the filter gate.  A nil filter is not called; a filter
\* that returns true hands the request to next with the writer and the
\* request as received, and the closure returns when next does; a filter
\* that panics unwinds the closure, which has no deferred function yet.
FilterCheck(r) ==
    /\ pc[r] = "filter"
    /\ IF filterNil \/ filterOut[r] = "false"
       THEN /\ pc' = [pc EXCEPT ![r] = "timer"]
            /\ UNCHANGED << calls, nextW, exit >>
       ELSE IF filterOut[r] = "true"
       THEN /\ pc' = [pc EXCEPT ![r] = "direct"]
            /\ calls' = [calls EXCEPT ![r] = @ + 1]
            /\ nextW' = [nextW EXCEPT ![r] = "w"]
            /\ UNCHANGED exit
       ELSE /\ pc' = [pc EXCEPT ![r] = "done"]
            /\ \E v \in PanicVals : exit' = [exit EXCEPT ![r] = Panicked(v)]
            /\ UNCHANGED << calls, nextW >>
    /\ UNCHANGED << filterNil, hEnd, filterOut, inHdr, sent, inBody, inMeta, hdr, body, meta,
                    timerOn, start, since, ctx, w, ww, buf, fields, rvr, hRead, obs,
                    hdrTouched, forced500, log, uuids, now, ticks >>

\* chilog.go:65: start := time.Now()
StartTimer(r) ==
    /\ pc[r] = "timer"
    /\ pc' = [pc EXCEPT ![r] = "reqid"]
    /\ timerOn' = [timerOn EXCEPT ![r] = TRUE]
    /\ start' = [start EXCEPT ![r] = now]
    /\ UNCHANGED << filterNil, hEnd, filterOut, inHdr, sent, inBody, inMeta, hdr, body, meta,
                    since, ctx, w, ww, buf, fields, rvr, calls, nextW, hRead, obs,
                    hdrTouched, exit, forced500, log, uuids, now, ticks >>

\* ResolveRequestID without the test of chilog.go:69: a new uuid is set even
\* when the request brought a value
ResolveRequestID_AlwaysNew(r) ==
    /\ pc[r] = "reqid"
    /\ pc' = [pc EXCEPT ![r] = "wrap"]
    /\ LET fresh == TRUE
           h == IF fresh THEN HeaderSet(hdr[r], UuidOf(uuids + 1)) ELSE hdr[r]
       IN /\ hdr' = [hdr EXCEPT ![r] = h]
          /\ uuids' = IF fresh THEN uuids + 1 ELSE uuids
          /\ ctx' = [ctx EXCEPT ![r] = [has |-> TRUE, request_id |-> HeaderGet(h)]]
    /\ UNCHANGED << filterNil, hEnd, filterOut, inHdr, sent, inBody, inMeta, body, meta,
                    timerOn, start, since, w, ww, buf, fields, rvr, calls, nextW, hRead,
                    obs, hdrTouched, exit, forced500, log, now, ticks >>

\* chilog.go:69-76: an empty header is set to a new uuid, and a logger with
\* request_id bound to the header's value is put into the context
ResolveRequestID(r) ==
    /\ pc[r] = "reqid"
    /\ pc' = [pc EXCEPT ![r] = "wrap"]
    /\ LET fresh == HeaderGet(hdr[r]) = ""
           h == IF fresh THEN HeaderSet(hdr[r], UuidOf(uuids + 1)) ELSE hdr[r]
       IN /\ hdr' = [hdr EXCEPT ![r] = h]
          /\ uuids' = IF fresh THEN uuids + 1 ELSE uuids
          /\ ctx' = [ctx EXCEPT ![r] = [has |-> TRUE, request_id |-> HeaderGet(h)]]
    /\ UNCHANGED << filterNil, hEnd, filterOut, inHdr, sent, inBody, inMeta, body, meta,
                    timerOn, start, since, w, ww, buf, fields, rvr, calls, nextW, hRead,
                    obs, hdrTouched, exit, forced500, log, now, ticks >>

\* chilog.go:80: ww := middleware.NewWrapResponseWriter(w, r.ProtoMajor)
WrapWriter(r) ==
    /\ pc[r] = "wrap"
    /\ pc' = [pc EXCEPT ![r] = "readbody"]
    /\ ww' = [ww EXCEPT ![r] = NewWrapResponseWriter]
    /\ UNCHANGED << filterNil, hEnd, filterOut, inHdr, sent, inBody, inMeta, hdr, body, meta,
                    timerOn, start, since, ctx, w, buf, fields, rvr, calls, nextW, hRead,
                    obs, hdrTouched, exit, forced500, log, uuids, now, ticks >>

\* ReadBody without chilog.go:88: r.Body is left as io.ReadAll drained it
ReadBody_NoRestore(r) ==
    /\ pc[r] = "readbody"
    /\ pc' = [pc EXCEPT ![r] = "fields"]
    /\ IF body[r].present
       THEN /\ buf' = [buf EXCEPT ![r] = ReadAll(body[r])]
            /\ body' = [body EXCEPT ![r] = Drained(@)]
       ELSE UNCHANGED << buf, body >>
    /\ UNCHANGED << filterNil, hEnd, filterOut, inHdr, sent, inBody, inMeta, hdr, meta,
                    timerOn, start, since, ctx, w, ww, fields, rvr, calls, nextW, hRead,
                    obs, hdrTouched, exit, forced500, log, uuids, now, ticks >>

\* ReadBody that treats a read error as fatal: it answers 400 and returns
\* without reaching the handler
ReadBody_AbortOnError(r) ==
    /\ pc[r] = "readbody"
    /\ IF body[r].present /\ body[r].err
       THEN /\ pc' = [pc EXCEPT ![r] = "done"]
            /\ w' = [w EXCEPT ![r] = WriteHeader(@, 400)]
            /\ exit' = [exit EXCEPT ![r] = Returned]
            /\ UNCHANGED << buf, body >>
       ELSE /\ pc' = [pc EXCEPT ![r] = "fields"]
            /\ IF body[r].present
               THEN /\ buf' = [buf EXCEPT ![r] = ReadAll(body[r])]
                    /\ body' = [body EXCEPT ![r] = Stream(ReadAll(body[r]), FALSE)]
               ELSE UNCHANGED << buf, body >>
            /\ UNCHANGED << w, exit >>
    /\ UNCHANGED << filterNil, hEnd, filterOut, inHdr, sent, inBody, inMeta, hdr, meta,
                    timerOn, start, since, ctx, ww, fields, rvr, calls, nextW, hRead,
                    obs, hdrTouched, forced500, log, uuids, now, ticks >>

\* chilog.go:83-89: a non-nil body is read to its end or to its first error
\* (which is dropped), and r.Body becomes a reader over the bytes read
ReadBody(r) ==
    /\ pc[r] = "readbody"
    /\ pc' = [pc EXCEPT ![r] = "fields"]
    /\ IF body[r].present
       THEN /\ buf' = [buf EXCEPT ![r] = ReadAll(body[r])]
            /\ body' = [body EXCEPT ![r] = Stream(ReadAll(body[r]), FALSE)]
       ELSE UNCHANGED << buf, body >>
    /\ UNCHANGED << filterNil, hEnd, filterOut, inHdr, sent, inBody, inMeta, hdr, meta,
                    timerOn, start, since, ctx, w, ww, fields, rvr, calls, nextW, hRead,
                    obs, hdrTouched, exit, forced500, log, uuids, now, ticks >>

\* chilog.go:92-98: fields := &logFields{...}
CreateFields(r) ==
    /\ pc[r] = "fields"
    /\ pc' = [pc EXCEPT ![r] = "call"]
    /\ fields' = [fields EXCEPT ![r] =
                    [ ZeroFields EXCEPT !.RemoteIP = meta[r].RemoteAddr,
                                        !.Method = meta[r].Method,
                                        !.Host = meta[r].Host,
                                        !.Path = meta[r].Path,
                                        !.Body = formatReqBody(buf[r]) ]]
    /\ UNCHANGED << filterNil, hEnd, filterOut, inHdr, sent, inBody, inMeta, hdr, body, meta,
                    timerOn, start, since, ctx, w, ww, buf, rvr, calls, nextW, hRead,
                    obs, hdrTouched, exit, forced500, log, uuids, now, ticks >>

\* chilog.go:100 and 143: the deferred function is registered and
\* next.ServeHTTP(ww, r.WithContext(ctx)) is entered
CallNext(r) ==
    /\ pc[r] = "call"
    /\ pc' = [pc EXCEPT ![r] = "handler"]
    /\ calls' = [calls EXCEPT ![r] = @ + 1]
    /\ nextW' = [nextW EXCEPT ![r] = "ww"]
    /\ UNCHANGED << filterNil, hEnd, filterOut, inHdr, sent, inBody, inMeta, hdr, body, meta,
                    timerOn, start, since, ctx, w, ww, buf, fields, rvr, hRead, obs,
                    hdrTouched, exit, forced500, log, uuids, now, ticks >>

(***************************************************************************)
(* The wrapped handler, next.ServeHTTP: the environment of the closure.    *)
(* On the filtered path (pc = "direct") it holds the server's writer and   *)
(* the request as received; otherwise (pc = "handler") it holds the chi    *)
(* wrapper and the request with the logger in its context.  Each action    *)
(* is one thing a handler can do; a handler is any sequence of them ended  *)
(* by a return or a panic.                                                 *)
(***************************************************************************)
InHandler(r) == pc[r] \in {"handler", "direct"}

\* the handler calls WriteHeader(code) on the writer it was given
HWriteHeader(r, code) ==
    /\ InHandler(r)
    /\ IF pc[r] = "handler"
       THEN /\ ww' = [ww EXCEPT ![r] = WrapWriteHeader(@, code)]
            /\ w' = [w EXCEPT ![r] =
                        IF ww[r].wroteHeader THEN @ ELSE WriteHeader(@, code)]
       ELSE /\ w' = [w EXCEPT ![r] = WriteHeader(@, code)]
            /\ UNCHANGED ww
    /\ UNCHANGED << filterNil, hEnd, filterOut, inHdr, sent, inBody, inMeta, hdr, body, meta,
                    pc, timerOn, start, since, ctx, buf, fields, rvr, calls, nextW,
                    hRead, obs, hdrTouched, exit, forced500, log, uuids, now,
                    ticks >>

\* the handler calls Write with body bytes: the wrapper's maybeWriteHeader
\* sends 200 when no status was sent through it
HWrite(r) ==
    /\ InHandler(r)
    /\ IF pc[r] = "handler"
       THEN /\ ww' = [ww EXCEPT ![r] = WrapWriteHeader(@, 200)]
            /\ w' = [w EXCEPT ![r] = Write(@)]
       ELSE /\ w' = [w EXCEPT ![r] = Write(@)]
            /\ UNCHANGED ww
    /\ UNCHANGED << filterNil, hEnd, filterOut, inHdr, sent, inBody, inMeta, hdr, body, meta,
                    pc, timerOn, start, since, ctx, buf, fields, rvr, calls, nextW,
                    hRead, obs, hdrTouched, exit, forced500, log, uuids, now,
                    ticks >>

\* the handler reads r.Header.Get(RequestIDHeader) and log.Ctx(r.Context()),
\* before it sets the header itself
HObserve(r) ==
    /\ InHandler(r)
    /\ ~hdrTouched[r]
    /\ obs' = [obs EXCEPT ![r] =
                  @ \cup {[header |-> HeaderGet(hdr[r]), logger |-> ctx[r]]}]
    /\ UNCHANGED << filterNil, hEnd, filterOut, inHdr, sent, inBody, inMeta, hdr, body, meta,
                    pc, timerOn, start, since, ctx, w, ww, buf, fields, rvr, calls,
                    nextW, hRead, hdrTouched, exit, forced500, log, uuids, now,
                    ticks >>

\* the handler sets the header to a value of its own
HSetHeader(r) ==
    /\ InHandler(r)
    /\ hdr' = [hdr EXCEPT ![r] = HeaderSet(@, "set-by-handler")]
    /\ hdrTouched' = [hdrTouched EXCEPT ![r] = TRUE]
    /\ UNCHANGED << filterNil, hEnd, filterOut, inHdr, sent, inBody, inMeta, body, meta, pc,
                    timerOn, start, since, ctx, w, ww, buf, fields, rvr, calls, nextW,
                    hRead, obs, exit, forced500, log, uuids, now, ticks >>

\* the handler's first io.ReadAll(r.Body)
HReadBody(r) ==
    /\ InHandler(r)
    /\ body[r].present
    /\ ~hRead[r].done
    /\ hRead' = [hRead EXCEPT ![r] =
                    [done |-> TRUE, data |-> ReadAll(body[r]), err |-> body[r].err]]
    /\ body' = [body EXCEPT ![r] = Drained(@)]
    /\ UNCHANGED << filterNil, hEnd, filterOut, inHdr, sent, inBody, inMeta, hdr, meta, pc,
                    timerOn, start, since, ctx, w, ww, buf, fields, rvr, calls, nextW,
                    obs, hdrTouched, exit, forced500, log, uuids, now, ticks >>

\* the handler overwrites RemoteAddr, Method, Host and URL.Path
HMutate(r) ==
    /\ InHandler(r)
    /\ meta' = [meta EXCEPT ![r] = HandlerMeta]
    /\ UNCHANGED << filterNil, hEnd, filterOut, inHdr, sent, inBody, inMeta, hdr, body, pc,
                    timerOn, start, since, ctx, w, ww, buf, fields, rvr, calls, nextW,
                    hRead, obs, hdrTouched, exit, forced500, log, uuids, now,
                    ticks >>

\* the handler returns: the deferred function runs, or, on the filtered
\* path, the closure returns (chilog.go:61)
HReturn(r) ==
    /\ InHandler(r)
    /\ IF pc[r] = "handler"
       THEN /\ pc' = [pc EXCEPT ![r] = "recover"]
            /\ UNCHANGED exit
       ELSE /\ pc' = [pc EXCEPT ![r] = "done"]
            /\ exit' = [exit EXCEPT ![r] = Returned]
    /\ hEnd' = [hEnd EXCEPT ![r] = Returned]
    /\ UNCHANGED << filterNil, filterOut, inHdr, sent, inBody, inMeta, hdr, body, meta,
                    timerOn, start, since, ctx, w, ww, buf, fields, rvr, calls, nextW,
                    hRead, obs, hdrTouched, forced500, log, uuids, now, ticks >>

\* HPanic as it would unwind if the deferred function were registered before
\* the filter gate: it runs for a panic on the filtered path too
HPanic_GuardedEverywhere(r, v) ==
    /\ InHandler(r)
    /\ pc' = [pc EXCEPT ![r] = "recover"]
    /\ rvr' = [rvr EXCEPT ![r] = v]
    /\ hEnd' = [hEnd EXCEPT ![r] = Panicked(v)]
    /\ UNCHANGED << filterNil, filterOut, inHdr, sent, inBody, inMeta, hdr, body, meta,
                    timerOn, start, since, ctx, w, ww, buf, fields, calls, nextW,
                    hRead, obs, hdrTouched, exit, forced500, log, uuids, now, ticks >>

\* the handler panics with v: the deferred function runs with v in flight,
\* or, on the filtered path, v unwinds the closure
HPanic(r, v) ==
    /\ InHandler(r)
    /\ IF pc[r] = "handler"
       THEN /\ pc' = [pc EXCEPT ![r] = "recover"]
            /\ rvr' = [rvr EXCEPT ![r] = v]
            /\ UNCHANGED exit
       ELSE /\ pc' = [pc EXCEPT ![r] = "done"]
            /\ exit' = [exit EXCEPT ![r] = Panicked(v)]
            /\ UNCHANGED rvr
    /\ hEnd' = [hEnd EXCEPT ![r] = Panicked(v)]
    /\ UNCHANGED << filterNil, filterOut, inHdr, sent, inBody, inMeta, hdr, body, meta,
                    timerOn, start, since, ctx, w, ww, buf, fields, calls, nextW,
                    hRead, obs, hdrTouched, forced500, log, uuids, now, ticks >>

\* the wall clock advances while a request is being timed
Tick ==
    /\ ticks < MaxTicks
    /\ \E r \in ReqIds : timerOn[r] /\ pc[r] \notin {"log", "done"}
    /\ ticks' = ticks + 1
    /\ \E d \in TickSteps : now' = now + d
    /\ UNCHANGED << filterNil, hEnd, filterOut, inHdr, sent, inBody, inMeta, hdr, body, meta,
                    pc, timerOn, start, since, ctx, w, ww, buf, fields, rvr, calls,
                    nextW, hRead, obs, hdrTouched, exit, forced500, log, uuids >>

(***************************************************************************)
(* The deferred function (chilog.go:100-141).                              *)
(***************************************************************************)
\* ErrorOf without the type assertion: every value goes through fmt.Errorf
ErrorOf_AlwaysFormat(v) == Val("error", v.text, "fmt.Errorf")

\* chilog.go:110-113: err, ok := rvr.(error); if !ok { err = fmt.Errorf("%v", rvr) }
ErrorOf(v) ==
    IF v.kind = "error" THEN v ELSE Val("error", v.text, "fmt.Errorf")

\* Latency with the nanoseconds divided down to whole milliseconds, losing the
\* two decimals of chilog.go:122
Latency_WholeMillis(elapsed) == (elapsed \div 1000000) * 100

\* chilog.go:122: float64(time.Since(start).Nanoseconds()/1e4) / 100.0,
\* held as the integer number of hundredths (the value times 100)
Latency(elapsed) == elapsed \div 10000

\* Classify with the panic case tested last instead of first
Classify_PanicLast(v, status) ==
    IF status >= 500 THEN [level |-> "error", message |-> "server error"]
    ELSE IF status >= 400 THEN [level |-> "error", message |-> "client error"]
    ELSE IF status >= 300 THEN [level |-> "warn", message |-> "redirect"]
    ELSE IF status >= 200 THEN [level |-> "info", message |-> "success"]
    ELSE IF status >= 100 THEN [level |-> "info", message |-> "informative"]
    ELSE IF v # NilVal THEN [level |-> "error", message |-> "panic recover"]
    ELSE [level |-> "warn", message |-> "unknown status"]

\* chilog.go:124-139: the level and the message of the record
Classify(v, status) ==
    IF v # NilVal THEN [level |-> "error", message |-> "panic recover"]
    ELSE IF status >= 500 THEN [level |-> "error", message |-> "server error"]
    ELSE IF status >= 400 THEN [level |-> "error", message |-> "client error"]
    ELSE IF status >= 300 THEN [level |-> "warn", message |-> "redirect"]
    ELSE IF status >= 200 THEN [level |-> "info", message |-> "success"]
    ELSE IF status >= 100 THEN [level |-> "info", message |-> "informative"]
    ELSE [level |-> "warn", message |-> "unknown status"]

\* a key MarshalZerologObject leaves out of the record
Absent == "<absent>"

\* chilog.go:34-52 and the logger of chilog.go:73-76: the record zerolog
\* writes for l at the given level; req names the invocation that wrote it
Record(r, l, class, logger) ==
    [ req |-> r,
      level |-> class.level,
      message |-> class.message,
      request_id |-> IF logger.has THEN logger.request_id ELSE Absent,
      remote_ip |-> l.RemoteIP,
      host |-> l.Host,
      method |-> l.Method,
      path |-> l.Path,
      body |-> l.Body,
      status_code |-> l.StatusCode,
      latency |-> l.Latency,
      tag |-> "request",
      error |-> IF l.Error # NilVal THEN l.Error.text ELSE Absent,
      stack |-> IF l.Stack # NilStack THEN l.Stack ELSE Absent ]

\* DeferRecover without the test of chilog.go:104: every recovered value is
\* panicked again
DeferRecover_RethrowAll(r) ==
    /\ pc[r] = "recover"
    /\ IF rvr[r] = NilVal
       THEN /\ pc' = [pc EXCEPT ![r] = "finalize"]
            /\ UNCHANGED exit
       ELSE /\ pc' = [pc EXCEPT ![r] = "done"]
            /\ exit' = [exit EXCEPT ![r] = Panicked(rvr[r])]
    /\ UNCHANGED << fields, w, forced500 >>
    /\ UNCHANGED << filterNil, hEnd, filterOut, inHdr, sent, inBody, inMeta, hdr, body, meta,
                    timerOn, start, since, ctx, ww, buf, rvr, calls, nextW, hRead, obs,
                    hdrTouched, log, uuids, now, ticks >>

\* DeferRecover without chilog.go:104-108: the abort sentinel is handled like
\* any other panic value
DeferRecover_NoAbortCheck(r) ==
    /\ pc[r] = "recover"
    /\ IF rvr[r] = NilVal
       THEN /\ pc' = [pc EXCEPT ![r] = "finalize"]
            /\ UNCHANGED << fields, w, forced500 >>
       ELSE /\ pc' = [pc EXCEPT ![r] = "finalize"]
            /\ fields' = [fields EXCEPT ![r].Error = ErrorOf(rvr[r]),
                                        ![r].Stack = StackTrace]
            /\ w' = [w EXCEPT ![r] = WriteHeader(@, 500)]
            /\ forced500' = [forced500 EXCEPT ![r] = TRUE]
    /\ UNCHANGED exit
    /\ UNCHANGED << filterNil, hEnd, filterOut, inHdr, sent, inBody, inMeta, hdr, body, meta,
                    timerOn, start, since, ctx, ww, buf, rvr, calls, nextW, hRead, obs,
                    hdrTouched, log, uuids, now, ticks >>

\* DeferRecover without chilog.go:118: no status is written after a panic
DeferRecover_No500(r) ==
    /\ pc[r] = "recover"
    /\ IF rvr[r] = NilVal
       THEN /\ pc' = [pc EXCEPT ![r] = "finalize"]
            /\ UNCHANGED << fields, exit >>
       ELSE IF rvr[r] = ErrAbortHandler
       THEN /\ pc' = [pc EXCEPT ![r] = "done"]
            /\ exit' = [exit EXCEPT ![r] = Panicked(rvr[r])]
            /\ UNCHANGED fields
       ELSE /\ pc' = [pc EXCEPT ![r] = "finalize"]
            /\ fields' = [fields EXCEPT ![r].Error = ErrorOf(rvr[r]),
                                        ![r].Stack = StackTrace]
            /\ UNCHANGED exit
    /\ UNCHANGED << w, forced500 >>
    /\ UNCHANGED << filterNil, hEnd, filterOut, inHdr, sent, inBody, inMeta, hdr, body, meta,
                    timerOn, start, since, ctx, ww, buf, rvr, calls, nextW, hRead, obs,
                    hdrTouched, log, uuids, now, ticks >>

\* chilog.go:101-119: recover(); the abort sentinel is panicked again, any
\* other value is stored with a stack trace and 500 is written to w
DeferRecover(r) ==
    /\ pc[r] = "recover"
    /\ IF rvr[r] = NilVal
       THEN /\ pc' = [pc EXCEPT ![r] = "finalize"]
            /\ UNCHANGED << fields, w, forced500, exit >>
       ELSE IF rvr[r] = ErrAbortHandler
       THEN /\ pc' = [pc EXCEPT ![r] = "done"]
            /\ exit' = [exit EXCEPT ![r] = Panicked(rvr[r])]
            /\ UNCHANGED << fields, w, forced500 >>
       ELSE /\ pc' = [pc EXCEPT ![r] = "finalize"]
            /\ fields' = [fields EXCEPT ![r].Error = ErrorOf(rvr[r]),
                                        ![r].Stack = StackTrace]
            /\ w' = [w EXCEPT ![r] = WriteHeader(@, 500)]
            /\ forced500' = [forced500 EXCEPT ![r] = TRUE]
            /\ UNCHANGED exit
    /\ UNCHANGED << filterNil, hEnd, filterOut, inHdr, sent, inBody, inMeta, hdr, body, meta,
                    timerOn, start, since, ctx, ww, buf, rvr, calls, nextW, hRead, obs,
                    hdrTouched, log, uuids, now, ticks >>

\* DeferFinalize that also fills the request fields again from r as the
\* handler left it
DeferFinalize_Recapture(r) ==
    /\ pc[r] = "finalize"
    /\ pc' = [pc EXCEPT ![r] = "log"]
    /\ since' = [since EXCEPT ![r] = now - start[r]]
    /\ fields' = [fields EXCEPT ![r].StatusCode = Status(ww[r]),
                                ![r].Latency = Latency(now - start[r]),
                                ![r].RemoteIP = meta[r].RemoteAddr,
                                ![r].Method = meta[r].Method,
                                ![r].Host = meta[r].Host,
                                ![r].Path = meta[r].Path]
    /\ UNCHANGED << filterNil, hEnd, filterOut, inHdr, sent, inBody, inMeta, hdr, body, meta,
                    timerOn, start, ctx, w, ww, buf, rvr, calls, nextW, hRead,
                    obs, hdrTouched, exit, forced500, log, uuids, now, ticks >>

\* chilog.go:121-122: the status of the wrapper and the latency
DeferFinalize(r) ==
    /\ pc[r] = "finalize"
    /\ pc' = [pc EXCEPT ![r] = "log"]
    /\ since' = [since EXCEPT ![r] = now - start[r]]
    /\ fields' = [fields EXCEPT ![r].StatusCode = Status(ww[r]),
                                ![r].Latency = Latency(now - start[r])]
    /\ UNCHANGED << filterNil, hEnd, filterOut, inHdr, sent, inBody, inMeta, hdr, body, meta,
                    timerOn, start, ctx, w, ww, buf, rvr, calls, nextW, hRead,
                    obs, hdrTouched, exit, forced500, log, uuids, now, ticks >>

\* DeferLog with the request_id taken from the header when the record is
\* written instead of from the logger bound at chilog.go:73-76
DeferLog_HeaderAtLogTime(r) ==
    /\ pc[r] = "log"
    /\ pc' = [pc EXCEPT ![r] = "done"]
    /\ log' = Append(log, Record(r, fields[r],
                                 Classify(rvr[r], fields[r].StatusCode),
                                 [has |-> TRUE, request_id |-> HeaderGet(hdr[r])]))
    /\ exit' = [exit EXCEPT ![r] = Returned]
    /\ UNCHANGED << filterNil, hEnd, filterOut, inHdr, sent, inBody, inMeta, hdr, body, meta,
                    timerOn, start, since, ctx, w, ww, buf, fields, rvr, calls, nextW,
                    hRead, obs, hdrTouched, forced500, uuids, now, ticks >>

\* DeferLog writing from one logFields value that all requests share instead
\* of the one created for this request at chilog.go:92
DeferLog_SharedFields(r) ==
    /\ pc[r] = "log"
    /\ pc' = [pc EXCEPT ![r] = "done"]
    /\ LET q == CHOOSE q \in ReqIds : fields[q] # ZeroFields IN
       log' = Append(log, Record(r, fields[q],
                                 Classify(rvr[r], fields[q].StatusCode), ctx[r]))
    /\ exit' = [exit EXCEPT ![r] = Returned]
    /\ UNCHANGED << filterNil, hEnd, filterOut, inHdr, sent, inBody, inMeta, hdr, body, meta,
                    timerOn, start, since, ctx, w, ww, buf, fields, rvr, calls, nextW,
                    hRead, obs, hdrTouched, forced500, uuids, now, ticks >>

\* chilog.go:124-139: one record through log.Ctx(ctx); the closure returns
DeferLog(r) ==
    /\ pc[r] = "log"
    /\ pc' = [pc EXCEPT ![r] = "done"]
    /\ log' = Append(log, Record(r, fields[r],
                                 Classify(rvr[r], fields[r].StatusCode), ctx[r]))
    /\ exit' = [exit EXCEPT ![r] = Returned]
    /\ UNCHANGED << filterNil, hEnd, filterOut, inHdr, sent, inBody, inMeta, hdr, body, meta,
                    timerOn, start, since, ctx, w, ww, buf, fields, rvr, calls, nextW,
                    hRead, obs, hdrTouched, forced500, uuids, now, ticks >>

Next ==
    \/ \E r \in ReqIds :
        \/ FilterCheck(r)
        \/ StartTimer(r)
        \/ ResolveRequestID(r)
        \/ WrapWriter(r)
        \/ ReadBody(r)
        \/ CreateFields(r)
        \/ CallNext(r)
        \/ \E code \in HandlerCodes : HWriteHeader(r, code)
        \/ HWrite(r)
        \/ HObserve(r)
        \/ HSetHeader(r)
        \/ HReadBody(r)
        \/ HMutate(r)
        \/ HReturn(r)
        \/ \E v \in PanicVals : HPanic(r, v)
        \/ DeferRecover(r)
        \/ DeferFinalize(r)
        \/ DeferLog(r)
    \/ Tick

Spec == Init /\ [][Next]_vars

\* the closure around a handler that answers 201 or nothing and returns
NextFormat ==
    \E r \in ReqIds :
        \/ FilterCheck(r)
        \/ StartTimer(r)
        \/ ResolveRequestID(r)
        \/ WrapWriter(r)
        \/ ReadBody(r)
        \/ CreateFields(r)
        \/ CallNext(r)
        \/ HWriteHeader(r, 201)
        \/ HReturn(r)
        \/ DeferRecover(r)
        \/ DeferFinalize(r)
        \/ DeferLog(r)

SpecFormat == InitFormat /\ [][NextFormat]_vars

\* the steps of the concurrent requests, interleaved statement by statement
NextConc ==
    \/ \E r \in ReqIds :
        \/ FilterCheck(r)
        \/ StartTimer(r)
        \/ ResolveRequestID(r)
        \/ WrapWriter(r)
        \/ ReadBody(r)
        \/ CreateFields(r)
        \/ CallNext(r)
        \/ \E code \in ConcCodes : HWriteHeader(r, code)
        \/ HReturn(r)
        \/ \E v \in PanicVals : HPanic(r, v)
        \/ DeferRecover(r)
        \/ DeferFinalize(r)
        \/ DeferLog(r)
    \/ Tick

SpecConc == InitConc /\ [][NextConc]_vars

(***************************************************************************)
(* Properties.                                                             *)
(***************************************************************************)
\* the positions in the log of the records written for r
RecordsOf(r) == { i \in 1..Len(log) : log[i].req = r }

\* the filter gate lets r through to the full path / hands r to next
NotFiltered(r) == pc[r] # "absent" /\ (filterNil \/ filterOut[r] = "false")
Filtered(r) == pc[r] # "absent" /\ ~filterNil /\ filterOut[r] = "true"

\* the handler of r has panicked with a value other than the sentinel
NonAbortPanic(r) == rvr[r] # NilVal /\ rvr[r] # ErrAbortHandler

\* the closure has ended for a non-filtered r whose handler returned, or
\* panicked with a value other than the sentinel
EndedLogged(r) ==
    NotFiltered(r) /\ pc[r] = "done" /\ rvr[r] # ErrAbortHandler

\* C1: a non-filtered request whose handler returned or panicked with a
\* non-abort value has exactly one record with tag "request" once the closure
\* has ended; no request ever has two, and a record exists only after the
\* handler was invoked once and has finished.
C1_ExactlyOneRecord ==
    \A r \in ReqIds :
        /\ Cardinality(RecordsOf(r)) <= 1
        /\ \A i \in RecordsOf(r) :
              /\ log[i].tag = "request"
              /\ pc[r] = "done" /\ exit[r] = Returned /\ calls[r] = 1
        /\ EndedLogged(r) => Cardinality(RecordsOf(r)) = 1

C1_Witness ==
    \E r \in ReqIds :
        /\ EndedLogged(r) /\ NonAbortPanic(r)
        /\ Cardinality(RecordsOf(r)) = 1
        /\ since[r] > 0

\* C2: when the handler of a non-filtered request panics with
\* http.ErrAbortHandler, no record is written, the deferred function writes
\* no 500 (the writer is as the handler left it), error and stack stay unset,
\* and the closure ends with the very same panic value.
C2_AbortPropagates ==
    \A r \in ReqIds :
        (NotFiltered(r) /\ rvr[r] = ErrAbortHandler) =>
            /\ RecordsOf(r) = {}
            /\ ~forced500[r]
            /\ w[r] = [wroteHeader |-> ww[r].wroteHeader, code |-> ww[r].code]
            /\ fields[r].Error = NilVal /\ fields[r].Stack = NilStack
            /\ pc[r] \in {"recover", "done"}
            /\ pc[r] = "done" => exit[r] = Panicked(ErrAbortHandler)

C2_Witness ==
    \E r \in ReqIds :
        /\ NotFiltered(r) /\ ww[r].made
        /\ pc[r] = "done" /\ exit[r] = Panicked(ErrAbortHandler)
        /\ ~w[r].wroteHeader

\* C3 as claimed: after a non-abort panic of the handler of a non-filtered
\* request the status sent to the client is 500 and the closure returns,
\* whatever the handler wrote before it panicked.
C3_Always500 ==
    \A r \in ReqIds :
        (NotFiltered(r) /\ pc[r] = "done" /\ NonAbortPanic(r)) =>
            /\ exit[r] = Returned
            /\ w[r].wroteHeader /\ w[r].code = 500

\* C3 as amended: after a non-abort panic of the handler of a non-filtered
\* request the closure returns (the panic does not propagate) and a status has
\* been sent: 500 when the handler had sent no status and no body bytes
\* before it panicked, and otherwise the status that was already sent (the one
\* the handler wrote, or 200 when it wrote body bytes first).
C3_500UnlessAlreadySent ==
    \A r \in ReqIds :
        (NotFiltered(r) /\ pc[r] = "done" /\ NonAbortPanic(r)) =>
            /\ exit[r] = Returned
            /\ forced500[r]
            /\ w[r].wroteHeader
            /\ w[r].code = IF ww[r].wroteHeader THEN ww[r].code ELSE 500

C3_Witness ==
    \E r \in ReqIds :
        /\ NotFiltered(r) /\ pc[r] = "done" /\ NonAbortPanic(r)
        /\ ~ww[r].wroteHeader
        /\ w[r].code = 500

\* C4: when the filter is present and returns true, next is invoked exactly
\* once with the server's writer and the request as received, and nothing else
\* happens: no record, no timer, no read or replacement of the body, no change
\* of the header, no logger in the context, no wrapper; the closure ends as
\* the handler does.
C4_FilteredPassThrough ==
    \A r \in ReqIds :
        Filtered(r) =>
            /\ pc[r] \in {"filter", "direct", "done"}
            /\ pc[r] # "filter" => calls[r] = 1 /\ nextW[r] = "w"
            /\ RecordsOf(r) = {}
            /\ ~timerOn[r] /\ since[r] = -1
            /\ buf[r] = <<>>
            /\ ~hRead[r].done => body[r] = inBody[r]
            /\ hRead[r].done =>
                  hRead[r].data = inBody[r].data /\ hRead[r].err = inBody[r].err
            /\ ~hdrTouched[r] => hdr[r] = inHdr[r]
            /\ ~ctx[r].has
            /\ \A o \in obs[r] : ~o.logger.has /\ o.header = HeaderGet(inHdr[r])
            /\ ~ww[r].made
            /\ fields[r] = ZeroFields

C4_Witness ==
    \E r \in ReqIds :
        /\ Filtered(r) /\ pc[r] = "done" /\ exit[r] = Returned
        /\ hRead[r].done /\ hRead[r].data # <<>>
        /\ w[r].wroteHeader
        /\ obs[r] # {}

\* the classes of the table of the specification, as disjoint cases
ExpectedClass(panicked, status) ==
    IF panicked THEN [level |-> "error", message |-> "panic recover"]
    ELSE IF status \in 500..999 THEN [level |-> "error", message |-> "server error"]
    ELSE IF status \in 400..499 THEN [level |-> "error", message |-> "client error"]
    ELSE IF status \in 300..399 THEN [level |-> "warn", message |-> "redirect"]
    ELSE IF status \in 200..299 THEN [level |-> "info", message |-> "success"]
    ELSE IF status \in 100..199 THEN [level |-> "info", message |-> "informative"]
    ELSE [level |-> "warn", message |-> "unknown status"]

\* the status values the classification is compared on
StatusDomain == 0..999

\* the classification of chilog.go:124-139 is the table, for every status and
\* for every recovered value
ClassifyIsTable ==
    \A s \in StatusDomain :
        /\ Classify(NilVal, s) = ExpectedClass(FALSE, s)
        /\ \A v \in PanicVals : Classify(v, s) = ExpectedClass(TRUE, s)

\* C5: the level and message of every record are those the table gives for
\* (a panic was recovered, the record's status_code), the panic case first;
\* and the classification is that table on every status value.
C5_SeverityByTable ==
    /\ ClassifyIsTable
    /\ \A i \in 1..Len(log) :
          LET class == ExpectedClass(rvr[log[i].req] # NilVal, log[i].status_code)
          IN log[i].level = class.level /\ log[i].message = class.message

C5_Witness ==
    \E i \in 1..Len(log) :
        /\ log[i].message = "panic recover"
        /\ log[i].level = "error"
        /\ log[i].status_code = 201
\* the correlation token of r once chilog.go:69-76 has run
Resolved(r) == NotFiltered(r) /\ pc[r] \notin {"filter", "timer", "reqid"}

\* the tokens uuid.New() has returned so far
Generated == { UuidOf(k) : k \in 1..uuids }

\* C6: for a non-filtered request that brought a non-empty value in the
\* header, the logger's and the record's request_id are that value and the
\* middleware leaves the header's values as they were; for one that brought
\* none, the header is set to a token uuid.New() returned, which is not empty,
\* is no inbound value and is no other request's token, and the logger's and
\* the record's request_id are that token.
C6_RequestIdResolved ==
    \A r \in ReqIds :
        Resolved(r) =>
            /\ ctx[r].has
            /\ \A i \in RecordsOf(r) : log[i].request_id = ctx[r].request_id
            /\ IF HeaderGet(inHdr[r]) # ""
               THEN /\ ctx[r].request_id = HeaderGet(inHdr[r])
                    /\ ~hdrTouched[r] => hdr[r] = inHdr[r]
               ELSE /\ ctx[r].request_id # ""
                    /\ ctx[r].request_id \in Generated
                    /\ \A h \in InboundHeaders : \A k \in 1..Len(h) :
                          ctx[r].request_id # h[k]
                    /\ \A q \in ReqIds \ {r} :
                          ctx[q].has => ctx[q].request_id # ctx[r].request_id
                    /\ ~hdrTouched[r] => hdr[r] = <<ctx[r].request_id>>

C6_Witness ==
    \E r \in ReqIds : \E i \in RecordsOf(r) :
        /\ inHdr[r] = <<"abc", "xyz">>
        /\ log[i].request_id = "abc"
        /\ hdr[r] = <<"abc", "xyz">>

\* C7 as claimed: a handler of a non-filtered request with a body reads the
\* bytes the client sent, however the middleware's own read ended.
C7_HandlerReadsWhatWasSent ==
    \A r \in ReqIds :
        (NotFiltered(r) /\ inBody[r].present /\ hRead[r].done) =>
            hRead[r].data = sent[r]

\* C7 as amended: a handler of a non-filtered request with a body reads,
\* without error, exactly the bytes the middleware's io.ReadAll returned:
\* all the bytes the client sent when that read ended at end of stream, and
\* the bytes delivered before the error when it ended with an error.
C7_HandlerReadsWhatWasBuffered ==
    \A r \in ReqIds :
        (NotFiltered(r) /\ inBody[r].present /\ hRead[r].done) =>
            /\ hRead[r].data = buf[r]
            /\ ~hRead[r].err
            /\ hRead[r].data = inBody[r].data
            /\ IsPrefix(hRead[r].data, sent[r])
            /\ ~inBody[r].err => hRead[r].data = sent[r]

C7_Witness ==
    \E r \in ReqIds :
        /\ NotFiltered(r) /\ hRead[r].done
        /\ ~inBody[r].err
        /\ hRead[r].data = <<"{", " ", "}">>
        /\ fields[r].Body = <<"{", "}">>

\* the handler of r has not called WriteHeader itself
NoExplicitStatus(r) == ww[r].code \notin HandlerCodes

\* C8: a handler of a non-filtered request that returns without calling
\* WriteHeader, whether or not it wrote body bytes, gets a record with
\* status_code 200, level info and message "success".
C8_StatusDefaults200 ==
    \A r \in ReqIds : \A i \in RecordsOf(r) :
        (rvr[r] = NilVal /\ NoExplicitStatus(r)) =>
            /\ log[i].status_code = 200
            /\ log[i].level = "info" /\ log[i].message = "success"

\* C9: within a non-filtered request, what the handler reads from the header
\* (before it sets the header itself), the request_id of the logger it gets
\* from the context and the request_id of the record are one token; a second
\* read sees the same; the record keeps the token when the handler sets the
\* header later.
C9_OneTokenForAll ==
    \A r \in ReqIds :
        NotFiltered(r) =>
            /\ Cardinality(obs[r]) <= 1
            /\ \A o \in obs[r] :
                  /\ o.logger.has
                  /\ o.header = o.logger.request_id
                  /\ o.logger = ctx[r]
                  /\ \A i \in RecordsOf(r) : log[i].request_id = o.header
            /\ \A i \in RecordsOf(r) : log[i].request_id = ctx[r].request_id

C9_Witness ==
    \E r \in ReqIds : \E i \in RecordsOf(r) :
        /\ obs[r] # {}
        /\ hdrTouched[r]
        /\ inHdr[r] = <<>>
        /\ log[i].request_id = UuidOf(1)
        /\ HeaderGet(hdr[r]) # log[i].request_id

\* C10: status_code and latency are assigned at finalization, after the
\* handler has ended and before the record is written (they are zero until
\* then, and the record carries the wrapper's status and the latency of the
\* time.Since taken then); error and stack are in the record exactly when a
\* non-abort panic was recovered, the error being the panic value itself when
\* it is an error and else the error made of its "%v" formatting.
C10_RecordInvariant ==
    \A r \in ReqIds :
        /\ pc[r] \notin {"log", "done"} =>
              /\ fields[r].StatusCode = 0 /\ fields[r].Latency = 0 /\ since[r] = -1
              /\ RecordsOf(r) = {}
        /\ (pc[r] = "log" \/ RecordsOf(r) # {}) =>
              /\ since[r] >= 0
              /\ fields[r].StatusCode = Status(ww[r])
              /\ fields[r].Latency = Latency(since[r])
        /\ \A i \in RecordsOf(r) :
              /\ log[i].status_code = fields[r].StatusCode
              /\ log[i].latency = fields[r].Latency
              /\ (log[i].error # Absent) <=> NonAbortPanic(r)
              /\ (log[i].stack # Absent) <=> NonAbortPanic(r)
              /\ NonAbortPanic(r) =>
                    /\ log[i].error = rvr[r].text
                    /\ log[i].stack = StackTrace
                    /\ fields[r].Error =
                          IF rvr[r].kind = "error" THEN rvr[r]
                          ELSE Val("error", rvr[r].text, "fmt.Errorf")
              /\ rvr[r] = NilVal =>
                    fields[r].Error = NilVal /\ fields[r].Stack = NilStack

C10_Witness ==
    \E r \in ReqIds : \E i \in RecordsOf(r) :
        /\ rvr[r].kind = "int"
        /\ log[i].error = "42"
        /\ log[i].stack # Absent
        /\ log[i].latency > 0

\* the body stream r arrived with fails while it is read
ReadFails(r) == inBody[r].present /\ inBody[r].err

\* C11: a body read that fails (before or after some bytes) never aborts a
\* non-filtered request: the closure goes on with the bytes read so far, the
\* handler is invoked exactly once, exactly one record is written unless the
\* handler aborts, the record has an error only when the handler panicked,
\* and the middleware writes no status of its own unless it recovered a panic.
C11_ReadErrorSwallowed ==
    \A r \in ReqIds : (NotFiltered(r) /\ ReadFails(r)) =>
        /\ pc[r] \in {"fields", "call"} =>
              /\ buf[r] = inBody[r].data
              /\ exit[r] = Running /\ rvr[r] = NilVal
              /\ w[r] = FreshWriter /\ fields[r].Error = NilVal
        /\ pc[r] \in {"handler", "recover", "finalize", "log", "done"} =>
              calls[r] = 1
        /\ EndedLogged(r) => Cardinality(RecordsOf(r)) = 1
        /\ rvr[r] = NilVal =>
              /\ ~forced500[r]
              /\ fields[r].Error = NilVal /\ fields[r].Stack = NilStack
              /\ w[r].wroteHeader => (ww[r].wroteHeader /\ w[r].code = ww[r].code)
              /\ \A i \in RecordsOf(r) :
                    log[i].error = Absent /\ log[i].stack = Absent

C11_Witness ==
    \E r \in ReqIds : \E i \in RecordsOf(r) :
        /\ ReadFails(r) /\ inBody[r].data # <<>>
        /\ sent[r] # inBody[r].data
        /\ pc[r] = "done" /\ calls[r] = 1 /\ rvr[r] = NilVal
        /\ log[i].error = Absent
        /\ ~w[r].wroteHeader

\* elapsed times, in nanoseconds, around the steps of the latency
LatencySamples ==
    { 0, 1, 9999, 10000, 10001, 15000, 19999, 20000, 999999, 1000000,
      9999999, 10000000, 10015000, 20000000, 1000000000 }

\* over the samples the latency is never negative and never decreases when
\* the elapsed time grows
LatencyMonotone ==
    \A a, b \in LatencySamples :
        /\ Latency(a) >= 0
        /\ a <= b => Latency(a) <= Latency(b)

\* C12 as stated: the latency is in seconds with two decimals, so a hundred
\* times the recorded value is the elapsed nanoseconds div 10^7.
C12_LatencySeconds ==
    \A r \in ReqIds : \A i \in RecordsOf(r) :
        log[i].latency = since[r] \div 10000000

\* C12: the latency of a record is the time elapsed between the start of the
\* request and its finalization, in milliseconds with two decimals: a hundred
\* times the recorded value is the elapsed nanoseconds div 10^4 (steps of ten
\* microseconds); it is never negative and non-decreasing in the elapsed time.
C12_LatencyMilliseconds ==
    /\ \A r \in ReqIds :
          /\ (pc[r] = "log" \/ RecordsOf(r) # {}) =>
                /\ since[r] = now - start[r]
                /\ since[r] >= 0
                /\ fields[r].Latency >= 0
                /\ fields[r].Latency * 10000 <= since[r]
                /\ since[r] < (fields[r].Latency + 1) * 10000
          /\ \A i \in RecordsOf(r) : log[i].latency = fields[r].Latency
    /\ LatencyMonotone

C12_Witness ==
    \E r \in ReqIds : \E i \in RecordsOf(r) :
        /\ since[r] = 15000
        /\ log[i].latency = 1

\* the kind of the top-level value of a valid JSON text
TopLevelKind(data) ==
    LET c == At(data, SkipWs(data, 1)) IN
    IF c = "{" THEN "object"
    ELSE IF c = "[" THEN "array"
    ELSE IF c = "\"" THEN "string"
    ELSE IF c = "n" THEN "null"
    ELSE IF c \in {"t", "f"} THEN "boolean"
    ELSE "number"

\* position i of s lies inside a string literal (after its opening quote, up
\* to and including its closing quote), scanning from position k in state q
RECURSIVE InLiteral(_, _, _, _)
InLiteral(s, i, k, q) ==
    IF k = i THEN q
    ELSE IF q /\ s[k] = "\\" THEN (k + 1 = i) \/ InLiteral(s, i, k + 2, TRUE)
    ELSE IF s[k] = "\"" THEN InLiteral(s, i, k + 1, ~q)
    ELSE InLiteral(s, i, k + 1, q)

\* the positions of the whitespace of s that lies outside string literals
InsignificantAt(s) ==
    { i \in 1..Len(s) : s[i] \in Whitespace /\ ~InLiteral(s, i, 1, FALSE) }

\* the number of positions up to i that are kept
Kept(s, i) == Cardinality((1..i) \ InsignificantAt(s))

\* out is s in compacted form: s without its insignificant whitespace, every
\* other character kept in order
CompactedForm(s, out) ==
    /\ Len(out) = Kept(s, Len(s))
    /\ \A i \in (1..Len(s)) \ InsignificantAt(s) : out[Kept(s, i)] = s[i]
    /\ InsignificantAt(out) = {}

\* C13 as stated: every body that is valid JSON, of any kind, is logged in
\* compacted form, and every other body is logged as its raw text.
C13_AnyJSONCompacted ==
    \A r \in ReqIds : \A i \in RecordsOf(r) :
        IF ValidJSON(inBody[r].data)
        THEN CompactedForm(inBody[r].data, log[i].body)
        ELSE log[i].body = inBody[r].data

\* C13: a body that the decoder accepts as a JSON object, or the literal
\* null (valid JSON, every number of which converts without a range error),
\* is logged in compacted form, with no whitespace outside string literals;
\* every other
\* body, not valid JSON, valid JSON of another kind (array, string, number,
\* boolean) or an object with a number out of range, is logged as its raw
\* text unchanged; an absent or empty body is logged as the empty string.
C13_ObjectsCompacted ==
    \A r \in ReqIds : \A i \in RecordsOf(r) :
        /\ IF /\ ValidJSON(inBody[r].data)
              /\ TopLevelKind(inBody[r].data) \in {"object", "null"}
              /\ ~OverflowFrom(inBody[r].data, 1, FALSE)
           THEN /\ CompactedForm(inBody[r].data, log[i].body)
                /\ ValidJSON(log[i].body)
           ELSE log[i].body = inBody[r].data
        /\ inBody[r].data \in {OverflowBody, FormFeedBody} =>
              log[i].body = inBody[r].data
        /\ inBody[r].data = InRangeBody => Len(log[i].body) = Len(InRangeBody) - 1
        /\ (~inBody[r].present \/ inBody[r].data = <<>>) => log[i].body = <<>>

C13_Witness ==
    \E r \in ReqIds : \E i \in RecordsOf(r) :
        /\ inBody[r].data = <<"{", "\"", " ", "\"", ":", " ", "1", "}">>
        /\ log[i].body = <<"{", "\"", " ", "\"", ":", "1", "}">>

\* C14: after a recovered non-abort panic the status_code of the record is
\* the status delivered to the client: 500 when the handler had sent no
\* headers before panicking, the status the handler had sent otherwise.
C14_RecordStatusIsDelivered ==
    \A r \in ReqIds : \A i \in RecordsOf(r) :
        NonAbortPanic(r) =>
            /\ w[r].wroteHeader
            /\ log[i].status_code = w[r].code
            /\ ~ww[r].wroteHeader => log[i].status_code = 500
            /\ ww[r].wroteHeader => log[i].status_code = ww[r].code

\* C15: on the filtered and on the non-filtered path next is invoked exactly
\* once per call of the closure: never twice, whatever the handler does, and
\* never skipped once the closure has ended; on the non-filtered path it is
\* invoked only after the request id was resolved into the context, the body
\* was read to its end and restored, and the fields were created, and it is
\* given the wrapper; on the filtered path it is given the writer as received.
C15_NextInvokedOnce ==
    \A r \in ReqIds :
        /\ calls[r] <= 1
        /\ ((Filtered(r) \/ NotFiltered(r)) /\ pc[r] = "done") => calls[r] = 1
        /\ (NotFiltered(r) /\ calls[r] = 0) =>
              pc[r] \in {"filter", "timer", "reqid", "wrap", "readbody", "fields", "call"}
        /\ (NotFiltered(r) /\ calls[r] = 1) =>
              /\ pc[r] \in {"handler", "recover", "finalize", "log", "done"}
              /\ nextW[r] = "ww" /\ ww[r].made
              /\ ctx[r].has /\ ctx[r].request_id # ""
              /\ buf[r] = inBody[r].data
              /\ fields[r].Body = formatReqBody(inBody[r].data)
              /\ fields[r].Method = inMeta[r].Method
        /\ (Filtered(r) /\ calls[r] = 1) =>
              /\ pc[r] \in {"direct", "done"}
              /\ nextW[r] = "w" /\ ~ww[r].made /\ ~ctx[r].has

C15_Witness ==
    \E r \in ReqIds :
        /\ NotFiltered(r) /\ pc[r] = "done" /\ calls[r] = 1
        /\ NonAbortPanic(r)
        /\ ww[r].code = 503
        /\ inBody[r].data # <<>>

\* the request id r's record must carry: the first inbound header value, or
\* failing that a generated one
OwnToken(r, id) ==
    IF HeaderGet(inHdr[r]) # "" THEN id = HeaderGet(inHdr[r])
    ELSE id \in { UuidOf(n) : n \in 1..Cardinality(ReqIds) }

\* C16: whatever the interleaving of the concurrent requests, a record
\* carries the request id, the request fields, the status and the error and
\* stack of its own request only; generated request ids differ between
\* requests; a panic or abort of one request leaves the writer, the status
\* and the outcome of the other as its own handler made them, and every
\* request that ended on the full path without aborting has its one record.
C16_Isolation ==
    \A r \in ReqIds :
        /\ \A i \in RecordsOf(r) :
              /\ OwnToken(r, log[i].request_id)
              /\ log[i].request_id = ctx[r].request_id
              /\ log[i].remote_ip = inMeta[r].RemoteAddr
              /\ log[i].host = inMeta[r].Host
              /\ log[i].method = inMeta[r].Method
              /\ log[i].path = inMeta[r].Path
              /\ log[i].body = formatReqBody(inBody[r].data)
              /\ log[i].status_code = Status(ww[r])
              /\ log[i].error = (IF NonAbortPanic(r) THEN rvr[r].text ELSE Absent)
              /\ (log[i].stack # Absent) <=> NonAbortPanic(r)
              /\ log[i].level = ExpectedClass(NonAbortPanic(r), Status(ww[r])).level
        /\ \A q \in ReqIds \ {r} :
              (ctx[r].has /\ ctx[q].has /\ HeaderGet(inHdr[r]) = "") =>
                  ctx[r].request_id # ctx[q].request_id
        /\ EndedLogged(r) => Cardinality(RecordsOf(r)) = 1
        /\ forced500[r] <=> (NonAbortPanic(r) /\ pc[r] \in {"finalize", "log", "done"})
        /\ w[r].wroteHeader =>
              \/ ww[r].wroteHeader /\ w[r].code = ww[r].code
              \/ forced500[r] /\ w[r].code = 500
              \/ Filtered(r) /\ w[r].code \in ConcCodes
        /\ exit[r].kind = "panic" =>
              \/ rvr[r] = ErrAbortHandler /\ exit[r] = Panicked(ErrAbortHandler)
              \/ ~NotFiltered(r)

C16_Witness ==
    /\ Len(log) = 2 /\ log[1].req = 2 /\ log[2].req = 1
    /\ rvr[1].kind = "int" /\ forced500[1]
    /\ rvr[2] = NilVal /\ ~forced500[2]
    /\ log[1].status_code = 201 /\ log[1].error = Absent
    /\ log[1].request_id = UuidOf(2) /\ log[2].request_id = UuidOf(1)
    /\ log[2].error = "42"
    /\ log[1].latency > log[2].latency

\* the logFields value chilog.go:92-98 creates for r as it arrived
CreatedFields(r) ==
    [ ZeroFields EXCEPT !.RemoteIP = inMeta[r].RemoteAddr,
                        !.Method = inMeta[r].Method,
                        !.Host = inMeta[r].Host,
                        !.Path = inMeta[r].Path,
                        !.Body = formatReqBody(inBody[r].data) ]

\* C17: from their creation on, whatever the handler does to the request
\* (overwriting method, host, path and remote address, reading the body to
\* its end) and whether it returns or panics, the fields of a non-filtered
\* request differ from the ones created for the request as it arrived in
\* status_code, latency, error and stack only, and the record carries the
\* created remote_ip, host, method, path and body.
C17_CreationFieldsKept ==
    \A r \in ReqIds :
        /\ (NotFiltered(r) /\ pc[r] \in {"call", "handler", "recover", "finalize", "log", "done"}) =>
              /\ [fields[r] EXCEPT !.StatusCode = 0, !.Latency = 0,
                                   !.Error = NilVal, !.Stack = NilStack] = CreatedFields(r)
              /\ pc[r] \in {"call", "handler", "recover"} =>
                    fields[r] = CreatedFields(r)
        /\ \A i \in RecordsOf(r) :
              /\ log[i].remote_ip = inMeta[r].RemoteAddr
              /\ log[i].host = inMeta[r].Host
              /\ log[i].method = inMeta[r].Method
              /\ log[i].path = inMeta[r].Path
              /\ log[i].body = formatReqBody(inBody[r].data)

C17_Witness ==
    \E r \in ReqIds : \E i \in RecordsOf(r) :
        /\ meta[r] = HandlerMeta
        /\ hRead[r].done /\ body[r] # inBody[r]
        /\ NonAbortPanic(r)
        /\ log[i].method = inMeta[r].Method /\ log[i].method # meta[r].Method
        /\ log[i].path = inMeta[r].Path
        /\ log[i].body = <<"{", "}">>

\* the filter predicate panics on r
FilterPanics(r) == pc[r] # "absent" /\ ~filterNil /\ filterOut[r] = "panic"

\* C18: the deferred function does not cover the filtered path: for a
\* request the filter returns true for, nothing is recovered, timed, wrapped
\* or recorded, the closure ends as the handler ended (a panic unwinds it with
\* the handler's value, abort sentinel or not), and the only status written
\* is the handler's own; when the filter predicate itself panics the closure
\* ends with that panic, with next not invoked, nothing written and no record.
C18_NoGuardWhenFiltered ==
    \A r \in ReqIds :
        /\ Filtered(r) =>
              /\ rvr[r] = NilVal /\ ~forced500[r]
              /\ RecordsOf(r) = {}
              /\ fields[r] = ZeroFields /\ ~ww[r].made /\ ~ctx[r].has /\ ~timerOn[r]
              /\ w[r].wroteHeader => w[r].code \in HandlerCodes \cup {200}
              /\ pc[r] = "done" =>
                    /\ calls[r] = 1
                    /\ hEnd[r] # Running
                    /\ exit[r] = hEnd[r]
        /\ FilterPanics(r) =>
              /\ calls[r] = 0 /\ hEnd[r] = Running
              /\ rvr[r] = NilVal /\ ~forced500[r]
              /\ RecordsOf(r) = {}
              /\ w[r] = FreshWriter /\ fields[r] = ZeroFields
              /\ pc[r] \in {"filter", "done"}
              /\ pc[r] = "done" => (exit[r].kind = "panic" /\ exit[r].val \in PanicVals)

C18_Witness ==
    \E r \in ReqIds :
        /\ Filtered(r) /\ pc[r] = "done"
        /\ exit[r] = Panicked(Val("int", "42", "handler"))
        /\ ~w[r].wroteHeader
        /\ log = <<>>

====
